---- MODULE Spec2Model ----
(***************************************************************************)
(* Model of src/run.ts of setup-helm: version resolution, release          *)
(* discovery, the tool cache, the executable locator and run().            *)
(*                                                                         *)
(* Strings are sequences of one-character strings, so that startsWith,     *)
(* indexOf, toLocaleLowerCase and "v" + version are computed, not assumed. *)
(***************************************************************************)
EXTENDS Integers, Sequences, FiniteSets, TLC

VARIABLES
    pc,          \* position of the current run() invocation
    inVersion,   \* core.getInput('version')
    inToken,     \* core.getInput('token'): "missing", "valid" or "invalid"
    legacy,      \* process.env['HELM_INSTALLER_LEGACY_VERSIONING'] == 'true'
    osType,      \* os.type()
    version,     \* run()'s local `version`
    discovery,   \* discovery calls made by this invocation
    cache,       \* host tool cache: version -> extracted directory
    cachedPath,  \* run()'s local `cachedPath`
    envPATH,     \* process.env['PATH'] (Undefined when unset)
    output,      \* the named output helm-path (Undefined until set)
    thrown,      \* error that rejected run()'s promise (Undefined if none)
    failure,     \* message given to core.setFailed (Undefined until then)
    download,    \* what downloadHelm did in this invocation
    startPATH,   \* process.env['PATH'] when the invocation started
    runs,        \* run() invocations, or downloadHelm calls, made so far
    netCalls,    \* version -> archive download attempts made
    fetched,     \* version -> completed download + extract + cacheDir
    acquired,    \* version -> path first returned by downloadHelm
    arg,         \* input of the function under test (function specifications)
    ret          \* its result

vars == <<pc, inVersion, inToken, legacy, osType, version, discovery, cache,
          cachedPath, envPATH, output, thrown, failure, download, startPATH,
          runs, netCalls, fetched, acquired, arg, ret>>

runVars == <<pc, inVersion, inToken, legacy, osType, version, discovery, cache,
             cachedPath, envPATH, output, thrown, failure, download,
             startPATH, runs, netCalls, fetched, acquired>>

----------------------------------------------------------------------------
(* Bounds *)

MaxListLen == 3     \* entries in a release listing
MaxCalls == 3       \* downloadHelm calls on one host
MaxDirLen == 2      \* entries in one directory of an extracted archive

----------------------------------------------------------------------------
(* Strings *)

Undefined == <<"<undefined>">>

UpperChars == <<"A","B","C","D","E","F","G","H","I","J","K","L","M",
                "N","O","P","Q","R","S","T","U","V","W","X","Y","Z">>
LowerChars == <<"a","b","c","d","e","f","g","h","i","j","k","l","m",
                "n","o","p","q","r","s","t","u","v","w","x","y","z">>
DigitChars == <<"0","1","2","3","4","5","6","7","8","9">>

\* code-unit order of the characters a version may hold
CharOrder == <<"*", "+", "-", ".", "/">> \o DigitChars \o <<":", "=">>
             \o UpperChars \o <<"_">> \o LowerChars

Range(seq) == {seq[i] : i \in DOMAIN seq}

\* position of c in seq (c occurs in it)
IndexIn(c, seq) == CHOOSE i \in DOMAIN seq : seq[i] = c

IsDigit(c) == c \in Range(DigitChars)
IsLetter(c) == c \in Range(UpperChars) \cup Range(LowerChars)

LowerChar(c) == IF c \in Range(UpperChars)
                THEN LowerChars[IndexIn(c, UpperChars)]
                ELSE c

toLocaleLowerCase(s) == [i \in DOMAIN s |-> LowerChar(s[i])]

startsWith(s, p) == /\ Len(p) <= Len(s)
                    /\ SubSeq(s, 1, Len(p)) = p

\* 1-based position of the first occurrence, 0 when absent (JS: -1)
indexOf(s, sub) ==
    LET hits == {i \in 1..(Len(s) - Len(sub) + 1) :
                    SubSeq(s, i, i + Len(sub) - 1) = sub}
    IN IF hits = {} THEN 0 ELSE CHOOSE i \in hits : \A j \in hits : i <= j

RECURSIVE Split(_, _)
Split(s, sep) ==
    LET i == indexOf(s, <<sep>>)
    IN IF i = 0 THEN <<s>>
       ELSE <<SubSeq(s, 1, i - 1)>> \o Split(SubSeq(s, i + 1, Len(s)), sep)

RECURSIVE Join(_, _)
Join(parts, sep) ==
    IF parts = <<>> THEN <<>>
    ELSE IF Len(parts) = 1 THEN parts[1]
    ELSE parts[1] \o <<sep>> \o Join(Tail(parts), sep)

RECURSIVE Reverse(_)
Reverse(s) == IF s = <<>> THEN <<>> ELSE Reverse(Tail(s)) \o <<Head(s)>>

\* String literals of the source
S_v == <<"v">>
S_rc == <<"r","c">>
S_latest == <<"l","a","t","e","s","t">>
S_v2 == <<"v","2">>
S_v3 == <<"v","3">>
S_helm == <<"h","e","l","m">>
S_exe == <<".","e","x","e">>
S_urlPrefix == <<"h","t","t","p","s",":","/","/","g","e","t",".","h","e","l","m",".","s","h","/","h","e","l","m","-">>
S_linuxSuffix == <<"-","l","i","n","u","x","-","a","m","d","6","4",".","z","i","p">>
S_darwinSuffix == <<"-","d","a","r","w","i","n","-","a","m","d","6","4",".","z","i","p">>
S_windowsSuffix == <<"-","w","i","n","d","o","w","s","-","a","m","d","6","4",".","z","i","p">>
S_downloadFailed == <<"F","a","i","l","e","d"," ","t","o"," ","d","o","w","n","l","o","a","d"," ","H","e","l","m"," ","f","r","o","m"," ","l","o","c","a","t","i","o","n">>
S_notFound == <<"H","e","l","m"," ","e","x","e","c","u","t","a","b","l","e"," ","n","o","t"," ","f","o","u","n","d"," ","i","n"," ","p","a","t","h">>
S_inputRequired == <<"I","n","p","u","t"," ","r","e","q","u","i","r","e","d"," ","a","n","d"," ","n","o","t"," ","s","u","p","p","l","i","e","d",":"," ">>
S_version == <<"v","e","r","s","i","o","n">>
S_token == <<"t","o","k","e","n">>
S_usrBin == <<"/","u","s","r","/","b","i","n">>
S_toolCacheRoot == <<"/","o","p","t","/","h","o","s","t","e","d","t","o","o","l","c","a","c","h","e">>
S_linuxAmd64 == <<"l","i","n","u","x","-","a","m","d","6","4">>
S_helmExe == <<"h","e","l","m",".","e","x","e">>

\* Release tags and version inputs the model draws from
T_353 == <<"v","3",".","5",".","3">>
T_360rc1 == <<"v","3",".","6",".","0","-","r","c",".","1">>
T_350 == <<"v","3",".","5",".","0">>
T_2160 == <<"v","2",".","1","6",".","0">>
T_V310 == <<"V","3",".","1",".","0">>
T_310 == <<"v","3",".","1",".","0">>
T_330beta1 == <<"v","3",".","3",".","0","-","b","e","t","a",".","1">>
T_340bare == <<"3",".","4",".","0">>
T_garbage == <<"h","e","l","m","-","3">>
T_V400 == <<"V","4",".","0",".","0">>
T_370RC1 == <<"v","3",".","7",".","0","-","R","C",".","1">>
I_latest == <<"l","a","t","e","s","t">>
I_Latest == <<"L","a","t","e","s","t">>
I_3x == <<"3",".","*">>
I_2x == <<"2",".","*">>
I_2170 == <<"2",".","1","7",".","0">>
I_v340 == <<"v","3",".","4",".","0">>
I_V340 == <<"V","3",".","4",".","0">>
I_v3x == <<"v","3",".","*">>

helmToolName == S_helm
stableHelmVersion == <<"v","3",".","2",".","1">>
stableHelm3Version == <<"v","3",".","5",".","3">>
stableHelm2Version == <<"v","2",".","1","7",".","0">>
LATEST_HELM2_VERSION == <<"2",".","*">>
LATEST_HELM3_VERSION == <<"3",".","*">>

----------------------------------------------------------------------------
(* semver (strict mode): clean and gt, as used by getStableHelmVersion *)

NoVersion == <<"<null>">>     \* semver.clean's null
Invalid == [valid |-> FALSE, major |-> 0, minor |-> 0, patch |-> 0,
            prerelease |-> <<>>]

RECURSIVE DigitsValue(_)
DigitsValue(s) ==
    IF s = <<>> THEN 0
    ELSE 10 * DigitsValue(SubSeq(s, 1, Len(s) - 1))
         + (IndexIn(s[Len(s)], DigitChars) - 1)

AllDigits(s) == \A i \in DOMAIN s : IsDigit(s[i])

\* 0|[1-9]\d*
IsNumericId(s) == /\ s # <<>>
                  /\ AllDigits(s)
                  /\ (Len(s) > 1 => s[1] # "0")

IsIdChar(c) == IsDigit(c) \/ IsLetter(c) \/ c = "-"

\* [0-9A-Za-z-]+
IsBuildId(s) == /\ s # <<>>
                /\ \A i \in DOMAIN s : IsIdChar(s[i])

\* 0|[1-9]\d*|\d*[a-zA-Z-][a-zA-Z0-9-]*
IsPrereleaseId(s) ==
    /\ IsBuildId(s)
    /\ (s[1] = "0" /\ Len(s) > 1) => \E i \in DOMAIN s : ~IsDigit(s[i])

RECURSIVE StripLeading(_, _)
StripLeading(s, chars) ==
    IF s # <<>> /\ Head(s) \in chars
    THEN StripLeading(Tail(s), chars)
    ELSE s

RECURSIVE StripTrailing(_, _)
StripTrailing(s, chars) ==
    IF s # <<>> /\ s[Len(s)] \in chars
    THEN StripTrailing(SubSeq(s, 1, Len(s) - 1), chars)
    ELSE s

Trim(s) == StripTrailing(StripLeading(s, {" "}), {" "})

\* s cut at position i (0: no cut): what stands before it and, split at the
\* dots, what stands after it
CutAt(s, i) ==
    IF i = 0 THEN [before |-> s, after |-> <<>>]
    ELSE [before |-> SubSeq(s, 1, i - 1),
          after |-> Split(SubSeq(s, i + 1, Len(s)), ".")]

\* The parsed version of MAJOR.MINOR.PATCH with its prerelease and build
\* identifiers, or Invalid
SemVerOf(nums, preIds, buildIds) ==
    IF /\ Len(nums) = 3
       /\ \A i \in DOMAIN nums : IsNumericId(nums[i])
       /\ \A i \in DOMAIN preIds : IsPrereleaseId(preIds[i])
       /\ \A i \in DOMAIN buildIds : IsBuildId(buildIds[i])
    THEN [valid |-> TRUE,
          major |-> DigitsValue(nums[1]),
          minor |-> DigitsValue(nums[2]),
          patch |-> DigitsValue(nums[3]),
          prerelease |-> preIds]
    ELSE Invalid

SemVerOfCuts(pre, build) ==
    SemVerOf(Split(pre.before, "."), pre.after, build.after)

SemVerOfBuildCut(build) ==
    SemVerOfCuts(CutAt(build.before, indexOf(build.before, <<"-">>)), build)

SemVerOfBody(body) == SemVerOfBuildCut(CutAt(body, indexOf(body, <<"+">>)))

\* new SemVer(s): the parsed version, or Invalid when s does not match
\* ^v?MAJOR.MINOR.PATCH(-PRERELEASE)?(\+BUILD)?$
SemVer(s) == SemVerOfBody(IF s # <<>> /\ Head(s) = "v" THEN Tail(s) ELSE s)

RECURSIVE NatString(_)
NatString(n) == IF n < 10 THEN <<DigitChars[n + 1]>>
                ELSE NatString(n \div 10) \o <<DigitChars[(n % 10) + 1]>>

\* SemVer.version: major.minor.patch[-prerelease]
Format(sv) ==
    IF sv.valid
    THEN NatString(sv.major) \o <<".">> \o NatString(sv.minor) \o <<".">>
         \o NatString(sv.patch)
         \o (IF sv.prerelease = <<>> THEN <<>>
             ELSE <<"-">> \o Join(sv.prerelease, "."))
    ELSE NoVersion

\* semver.clean: trim, drop leading "=" and "v", parse; null when invalid
clean(s) == Format(SemVer(StripLeading(Trim(s), {"=", "v"})))

Sign(a, b) == IF a < b THEN -1 ELSE IF a > b THEN 1 ELSE 0

RECURSIVE CompareStrings(_, _)
CompareStrings(a, b) ==
    IF a = <<>> /\ b = <<>> THEN 0
    ELSE IF a = <<>> THEN -1
    ELSE IF b = <<>> THEN 1
    ELSE IF Head(a) # Head(b)
         THEN Sign(IndexIn(Head(a), CharOrder), IndexIn(Head(b), CharOrder))
    ELSE CompareStrings(Tail(a), Tail(b))

\* compareIdentifiers: numeric ids numerically and below alphanumeric ones
CompareIdentifiers(a, b) ==
    CASE AllDigits(a) /\ AllDigits(b) -> Sign(DigitsValue(a), DigitsValue(b))
      [] AllDigits(a) /\ ~AllDigits(b) -> -1
      [] ~AllDigits(a) /\ AllDigits(b) -> 1
      [] OTHER -> CompareStrings(a, b)

RECURSIVE ComparePreIds(_, _)
Then(c, a, b) == IF c # 0 THEN c ELSE ComparePreIds(a, b)

ComparePreIds(a, b) ==
    IF a = <<>> /\ b = <<>> THEN 0
    ELSE IF b = <<>> THEN 1
    ELSE IF a = <<>> THEN -1
    ELSE Then(CompareIdentifiers(Head(a), Head(b)), Tail(a), Tail(b))

\* SemVer.comparePre: a release is above each of its prereleases
ComparePre(x, y) ==
    IF x.prerelease # <<>> /\ y.prerelease = <<>> THEN -1
    ELSE IF x.prerelease = <<>> /\ y.prerelease # <<>> THEN 1
    ELSE ComparePreIds(x.prerelease, y.prerelease)

Compare(x, y) ==
    IF x.major # y.major THEN Sign(x.major, y.major)
    ELSE IF x.minor # y.minor THEN Sign(x.minor, y.minor)
    ELSE IF x.patch # y.patch THEN Sign(x.patch, y.patch)
    ELSE ComparePre(x, y)

\* semver.gt(a, b) on version strings
gt(a, b) == Compare(SemVer(a), SemVer(b)) = 1

----------------------------------------------------------------------------
(* Global discovery: getStableHelmVersion *)

\* Sequences of length at most n over S
SeqsUpTo(S, n) == UNION {[1..k -> S] : k \in 0..n}

\* One element of the parsed JSON array: null, an object without tag_name
\* (or with an empty one), or an object with a tag_name
NullEntry == [kind |-> "null", tag_name |-> <<>>]
NoTagEntry == [kind |-> "object", tag_name |-> <<>>]
TagEntry(t) == [kind |-> "object", tag_name |-> t]

ListedTags == {T_353, T_360rc1, T_310, T_330beta1, T_340bare, T_garbage,
               T_V400}

ResponseEntries == {NullEntry, NoTagEntry} \cup {TagEntry(t) : t \in ListedTags}

\* What toolCache.downloadTool + JSON.parse give: a failed fetch, a body that
\* is no JSON, a JSON value that is no array, or an array of entries
Responses ==
    {[kind |-> k, items |-> <<>>] : k \in {"fetchError", "parseError", "notArray"}}
    \cup {[kind |-> "array", items |-> a] :
             a \in SeqsUpTo(ResponseEntries, MaxListLen)}

StableMaxNoCompare(latestHelmVersion, currentHelmVerison) ==
    IF /\ currentHelmVerison # NoVersion
       /\ indexOf(currentHelmVerison, S_rc) = 0
    THEN currentHelmVerison
    ELSE latestHelmVersion

\* Lines 52-57: the running maximum against one cleaned tag
StableMax(latestHelmVersion, currentHelmVerison) ==
    IF /\ currentHelmVerison # NoVersion
       /\ indexOf(currentHelmVerison, S_rc) = 0
       /\ gt(currentHelmVerison, latestHelmVersion)
    THEN currentHelmVerison
    ELSE latestHelmVersion

\* The forEach callback, lines 50-58: the running maximum after one entry
StableStep(latestHelmVersion, response) ==
    IF response.kind = "object" /\ response.tag_name # <<>>
    THEN StableMax(latestHelmVersion, clean(response.tag_name))
    ELSE latestHelmVersion

RECURSIVE StableLoop(_, _)
StableLoop(latestHelmVersion, responseArray) ==
    IF responseArray = <<>> THEN latestHelmVersion
    ELSE StableLoop(StableStep(latestHelmVersion, Head(responseArray)),
                    Tail(responseArray))

\* Lines 44-67. Every failure inside the try (fetch, JSON.parse, forEach on a
\* value that is no array) ends in the catch and the default.
getStableHelmVersion(resp) ==
    IF resp.kind = "array"
    THEN S_v \o StableLoop(clean(stableHelmVersion), resp.items)
    ELSE stableHelmVersion
----------------------------------------------------------------------------
(* Family-scoped discovery: getLatestHelmVersionFor *)

Returned(v) == [raised |-> FALSE, value |-> v]
Raised(msg) == [raised |-> TRUE, value |-> msg]

\* core.getInput(name, {required: true}) on an input that is not supplied
InputRequiredError(name) == S_inputRequired \o name

getStableHelmVersionFor(type) ==
    IF type = S_v2 THEN stableHelm2Version ELSE stableHelm3Version

isValidVersionAnyRelease(ver, type) ==
    startsWith(toLocaleLowerCase(ver), type)

\* Lines 148-152
isValidVersion(ver, type) ==
    IF ~startsWith(toLocaleLowerCase(ver), type)
    THEN FALSE
    ELSE indexOf(ver, S_rc) = 0

\* Array.prototype.find: the first element satisfying the predicate
RECURSIVE FindValid(_, _)
FindValid(releases, type) ==
    IF releases = <<>> THEN Undefined
    ELSE IF isValidVersion(Head(releases), type) THEN Head(releases)
    ELSE FindValid(Tail(releases), type)

\* Lines 133-140
FoundOrDefault(latestValidRelease, type) ==
    IF latestValidRelease # Undefined
    THEN Returned(latestValidRelease)
    ELSE Returned(getStableHelmVersionFor(type))

FamilyTags == {T_353, T_360rc1, T_350, T_2160, T_V310, T_370RC1}

\* What the graphql call gives: a rejection (authentication or transport), or
\* the tag names of the last releases
QueryResults(tokenState) ==
    {[kind |-> "error", nodes |-> <<>>]}
    \cup (IF tokenState = "valid"
          THEN {[kind |-> "nodes", nodes |-> n] :
                   n \in SeqsUpTo(FamilyTags, MaxListLen)}
          ELSE {})

\* Lines 111-141. getInput('token') stands before the try.
getLatestHelmVersionFor(type, tokenState, query) ==
    IF tokenState = "missing"
    THEN Raised(InputRequiredError(S_token))
    ELSE IF query.kind = "error"
    THEN Returned(getStableHelmVersionFor(type))
    ELSE FoundOrDefault(FindValid(Reverse(query.nodes), type), type)

----------------------------------------------------------------------------
(* Executable locator: walkSync and findHelm *)

OsTypes == {"Linux", "Darwin", "Windows_NT"}

\* Lines 23-28: os.type().match(/^Win/)
getExecutableExtension(os) == IF os = "Windows_NT" THEN S_exe ELSE <<>>

\* path.join(dir, file)
PathJoin(dir, file) == dir \o <<"/">> \o file

\* path.dirname(p), for a path with at least one separator
RECURSIVE LastIndexOf(_, _)
LastIndexOf(s, c) ==
    IF s = <<>> THEN 0
    ELSE IF s[Len(s)] = c THEN Len(s)
    ELSE LastIndexOf(SubSeq(s, 1, Len(s) - 1), c)

PathDirname(p) == SubSeq(p, 1, LastIndexOf(p, "/") - 1)

File(n) == [name |-> n, isDir |-> FALSE, children |-> <<>>]
Dir(n, c) == [name |-> n, isDir |-> TRUE, children |-> c]

DistinctNames(l) == \A i, j \in DOMAIN l : i # j => l[i].name # l[j].name

\* Directory listings: at most MaxDirLen entries with distinct names
Listings(entries) == {l \in SeqsUpTo(entries, MaxDirLen) : DistinctNames(l)}

FileEntries == {File(S_helm), File(S_helmExe)}

\* Directories two levels below the root: files only
InnerListings ==
    {<<File(S_helm)>>, <<File(S_helmExe)>>, <<File(S_helmExe), File(S_helm)>>}
InnerDirs == {Dir(n, c) : n \in {S_linuxAmd64, S_helm}, c \in InnerListings}

\* The directory one level below the root: empty, one entry, or a pair of
\* entries with distinct names, files and directories in either order
MiddleListings ==
    {l \in {<<>>} \cup {<<e>> : e \in FileEntries \cup InnerDirs}
             \cup {<<e, f>> : e, f \in FileEntries \cup InnerDirs} :
        DistinctNames(l)}
MiddleDirs == {Dir(S_linuxAmd64, c) : c \in MiddleListings}

\* The root folder's listing
Trees == Listings(FileEntries \cup MiddleDirs)

isMatchPrefix(file, fileToFind) == startsWith(file, fileToFind)

\* Line 78
isMatch(file, fileToFind) == file = fileToFind

\* Lines 69-84; `files` is what readdirSync(dir) lists, in its order
RECURSIVE walkSync(_, _, _, _)
walkSync(dir, files, filelist, fileToFind) ==
    IF files = <<>> THEN filelist
    ELSE LET file == Head(files)
             after ==
                 IF file.isDir
                 THEN walkSync(PathJoin(dir, file.name), file.children,
                               filelist, fileToFind)
                 ELSE IF isMatch(file.name, fileToFind)
                      THEN Append(filelist, PathJoin(dir, file.name))
                      ELSE filelist
         IN walkSync(dir, Tail(files), after, fileToFind)

NotFoundError(rootFolder) == S_notFound \o <<" ">> \o rootFolder

\* Lines 154-164
findHelm(rootFolder, tree, os) ==
    LET filelist == walkSync(rootFolder, tree, <<>>,
                             helmToolName \o getExecutableExtension(os))
    IN IF Len(filelist) = 0
       THEN Raised(NotFoundError(rootFolder))
       ELSE Returned(filelist[1])

----------------------------------------------------------------------------
(* Specifications of the three functions on their own *)

EmptyMap == [x \in {} |-> 0]

NoRun ==
    /\ pc = "idle"
    /\ inVersion = Undefined
    /\ inToken = "valid"
    /\ legacy = FALSE
    /\ osType = "Linux"
    /\ version = Undefined
    /\ discovery = <<>>
    /\ cache = EmptyMap
    /\ cachedPath = Undefined
    /\ envPATH = Undefined
    /\ output = Undefined
    /\ thrown = Undefined
    /\ failure = Undefined
    /\ download = "notCalled"
    /\ startPATH = Undefined
    /\ runs = 0
    /\ netCalls = EmptyMap
    /\ fetched = EmptyMap
    /\ acquired = EmptyMap

NotCalled == [raised |-> FALSE, value |-> <<"<pending>">>]

InitStable == NoRun /\ arg \in Responses /\ ret = NotCalled

CallStable ==
    /\ ret = NotCalled
    /\ ret' = Returned(getStableHelmVersion(arg))
    /\ UNCHANGED <<runVars, arg>>

SpecStable == InitStable /\ [][CallStable]_vars

InitFamily ==
    /\ NoRun
    /\ arg \in {[type |-> t, token |-> k, query |-> q] :
                   t \in {S_v2, S_v3},
                   k \in {"valid", "invalid", "missing"},
                   q \in QueryResults("valid")}
    /\ arg.query \in QueryResults(arg.token)
    /\ ret = NotCalled

CallFamily ==
    /\ ret = NotCalled
    /\ ret' = getLatestHelmVersionFor(arg.type, arg.token, arg.query)
    /\ UNCHANGED <<runVars, arg>>

SpecFamily == InitFamily /\ [][CallFamily]_vars

InitFind ==
    /\ NoRun
    /\ arg \in {[root |-> S_toolCacheRoot, tree |-> t, os |-> o] :
                   t \in Trees, o \in OsTypes}
    /\ ret = NotCalled

CallFind ==
    /\ ret = NotCalled
    /\ ret' = findHelm(arg.root, arg.tree, arg.os)
    /\ UNCHANGED <<runVars, arg>>

SpecFind == InitFind /\ [][CallFind]_vars
----------------------------------------------------------------------------
(* Properties of the three functions *)

Called == ret # NotCalled

\* C5 (SpecStable): for every response (a failed fetch, a body that does not
\* parse, an empty array, an array of malformed, tagless, lower or higher
\* entries) getStableHelmVersion returns a version that starts with "v" and
\* is not below the seed v3.2.1 in semantic-version order.
C5_StableNeverBelowSeed ==
    Called =>
        /\ ~ret.raised
        /\ Head(ret.value) = "v"
        /\ SemVer(ret.value).valid
        /\ Compare(SemVer(ret.value), SemVer(stableHelmVersion)) >= 0

\* C5 witness: an array holding a malformed tag and a tag below the seed has
\* been processed and the seed was returned.
C5_Witness ==
    /\ Called
    /\ arg.kind = "array"
    /\ \E i \in DOMAIN arg.items : arg.items[i] = TagEntry(T_garbage)
    /\ \E i \in DOMAIN arg.items : arg.items[i] = TagEntry(T_310)
    /\ ret.value = stableHelmVersion

HasFamilyPrefix(t, family) ==
    /\ Len(t) >= 2
    /\ t[1] \in {"v", "V"}
    /\ t[2] = family[2]

HasRc(t) == \E k \in 1..(Len(t) - 1) : t[k] = "r" /\ t[k + 1] = "c"

\* C6 (SpecFamily): whenever the query yields a listing, the result is the
\* tag latest in the listing (first after reversal) that starts with the
\* family prefix case-insensitively and holds no "rc"; with no such tag it
\* is the family's default; a tag holding "rc" is never returned; and
\* [v3.5.3, v3.6.0-rc.1, v3.5.0] for family v3 gives v3.5.0.
C6_FamilyFirstAfterReversal ==
    (Called /\ arg.token # "missing" /\ arg.query.kind = "nodes") =>
        LET l == arg.query.nodes
            good == {i \in DOMAIN l :
                        HasFamilyPrefix(l[i], arg.type) /\ ~HasRc(l[i])}
            last == CHOOSE i \in good : \A j \in good : j <= i
        IN /\ ~ret.raised
           /\ ~HasRc(ret.value)
           /\ good # {} => ret.value = l[last]
           /\ good = {} => ret.value = (IF arg.type = S_v2
                                        THEN stableHelm2Version
                                        ELSE stableHelm3Version)
           /\ (l = <<T_353, T_360rc1, T_350>> /\ arg.type = S_v3)
                  => ret.value = T_350

\* C6 witness: the listing of the example has been resolved for family v3.
C6_Witness ==
    /\ Called
    /\ arg.token = "valid"
    /\ arg.query.kind = "nodes"
    /\ arg.query.nodes = <<T_353, T_360rc1, T_350>>
    /\ arg.type = S_v3
    /\ ret = Returned(T_350)

\* Every file of a tree (directories excluded), with the positions leading to
\* it and its path
RECURSIVE FilesIn(_, _, _)
FilesIn(dir, at, entries) ==
    UNION {IF entries[i].isDir
           THEN FilesIn(dir \o <<"/">> \o entries[i].name, at \o <<i>>,
                        entries[i].children)
           ELSE {[at |-> at \o <<i>>, name |-> entries[i].name,
                  path |-> dir \o <<"/">> \o entries[i].name]} :
           i \in DOMAIN entries}

\* a is met before b in a depth-first traversal in listing order
MetBefore(a, b) ==
    \E k \in 1..Len(a) :
        /\ k <= Len(b)
        /\ \A j \in 1..(k - 1) : a[j] = b[j]
        /\ a[k] < b[k]

TargetName(os) == IF os = "Windows_NT" THEN S_helmExe ELSE S_helm

Matches == {f \in FilesIn(arg.root, <<>>, arg.tree) : f.name = TargetName(arg.os)}

\* C9 (SpecFind): findHelm reports not-found exactly when no file of the tree
\* is named as the target, returns the path of the matching file when there
\* is exactly one (at any depth), and with several returns the one met
\* first in depth-first traversal order.
C9_LocatorFirstMatch ==
    Called =>
        /\ Matches = {} => ret = Raised(NotFoundError(arg.root))
        /\ Cardinality(Matches) = 1 =>
               \E f \in Matches : ret = Returned(f.path)
        /\ Matches # {} =>
               \E f \in Matches :
                   /\ \A g \in Matches : g # f => MetBefore(f.at, g.at)
                   /\ ret = Returned(f.path)

\* C9 witness: several files match, the first met lies two directories deep
\* and after a file that does not match, and its path was returned.
C9_Witness ==
    /\ Called
    /\ Cardinality(Matches) >= 2
    /\ \E f \in Matches :
           /\ Len(f.at) = 3
           /\ ret = Returned(f.path)
    /\ ~arg.tree[1].isDir
----------------------------------------------------------------------------
(* run(): version resolution, lines 167-183 *)

\* Lines 170 and 176: version.toLocaleLowerCase() === 'latest'
isLatest(ver) == toLocaleLowerCase(ver) = S_latest

\* Line 176
wantsHelm3(ver) == isLatest(ver) \/ ver = LATEST_HELM3_VERSION

wantsHelm2Never(ver) == FALSE

\* Line 178
wantsHelm2(ver) == ver = LATEST_HELM2_VERSION

needsPrefixNever(ver) == FALSE

\* Lines 172 and 180: !version.toLocaleLowerCase().startsWith('v')
needsPrefix(ver) == ~startsWith(toLocaleLowerCase(ver), S_v)

withPrefixUpper(ver) == <<"V">> \o ver

\* Lines 173 and 181: 'v' + version
withPrefix(ver) == S_v \o ver

Resolved(v, calls) == [raised |-> FALSE, value |-> v, discovery |-> calls]
Rejected(msg, calls) == [raised |-> TRUE, value |-> msg, discovery |-> calls]

Call(name, outcome) == <<[call |-> name, outcome |-> outcome]>>

QueryOutcome(tokenState, query) ==
    IF tokenState = "missing" THEN "noToken" ELSE query.kind

\* await of a discovery call: its rejection rejects run()
Awaited(r, calls) ==
    IF r.raised THEN Rejected(r.value, calls) ELSE Resolved(r.value, calls)

\* Lines 167-183, given what the listing fetch (resp) and the graph query
\* (query) give when they are made
resolve(ver, leg, tokenState, resp, query) ==
    IF ver = <<>>
    THEN Rejected(InputRequiredError(S_version), <<>>)
    ELSE IF leg
    THEN IF isLatest(ver)
         THEN Resolved(getStableHelmVersion(resp), Call("global", resp.kind))
         ELSE IF needsPrefix(ver)
         THEN Resolved(withPrefix(ver), <<>>)
         ELSE Resolved(ver, <<>>)
    ELSE IF wantsHelm3(ver)
    THEN Awaited(getLatestHelmVersionFor(S_v3, tokenState, query),
                 Call("v3", QueryOutcome(tokenState, query)))
    ELSE IF wantsHelm2(ver)
    THEN Awaited(getLatestHelmVersionFor(S_v2, tokenState, query),
                 Call("v2", QueryOutcome(tokenState, query)))
    ELSE IF needsPrefix(ver)
    THEN Resolved(withPrefix(ver), <<>>)
    ELSE Resolved(ver, <<>>)

----------------------------------------------------------------------------
(* downloadHelm, lines 86-109, and the host tool cache *)

\* Lines 30-42
getHelmDownloadURL(os, ver) ==
    CASE os = "Linux" -> S_urlPrefix \o ver \o S_linuxSuffix
      [] os = "Darwin" -> S_urlPrefix \o ver \o S_darwinSuffix
      [] OTHER -> S_urlPrefix \o ver \o S_windowsSuffix

\* Directory of (helm, version) in the tool cache
ToolPath(ver) == PathJoin(PathJoin(S_toolCacheRoot, helmToolName), ver)

toolCacheFindMiss(c, ver) == <<>>

\* Line 88, toolCache.find: the cached directory, or '' when there is none
toolCacheFind(c, ver) == IF ver \in DOMAIN c THEN ToolPath(ver) ELSE <<>>

\* Line 99, toolCache.cacheDir: registers the extracted directory
cacheDir(c, tree, ver) ==
    [x \in DOMAIN c \cup {ver} |-> IF x = ver THEN tree ELSE c[x]]

Count(m, k) == IF k \in DOMAIN m THEN m[k] ELSE 0
Incr(m, k) == [x \in DOMAIN m \cup {k} |-> IF x = k THEN Count(m, k) + 1 ELSE m[x]]
Remember(m, k, v) == [x \in DOMAIN m \cup {k} |-> IF x \in DOMAIN m THEN m[x] ELSE v]

DownloadFailedError(os, ver) ==
    S_downloadFailed \o <<" ">> \o getHelmDownloadURL(os, ver)

\* What an extracted release archive may hold
ArchiveTrees ==
    {<<File(S_helmExe)>>,
     <<Dir(S_linuxAmd64, <<File(S_helm)>>)>>,
     <<File(S_helm), Dir(S_linuxAmd64, <<File(S_helm), File(S_helmExe)>>)>>}

\* What toolCache.downloadTool + extractZip give for an archive URL
Archives == {[ok |-> FALSE, tree |-> <<>>]}
            \cup {[ok |-> TRUE, tree |-> t] : t \in ArchiveTrees}

\* Lines 102-105: findHelm, and the check of what it returned
checked(helmpath, cachedToolpath) ==
    IF ~helmpath.raised /\ helmpath.value = <<>>
    THEN Raised(NotFoundError(cachedToolpath))
    ELSE helmpath

locate(cachedToolpath, tree, os) ==
    checked(findHelm(cachedToolpath, tree, os), cachedToolpath)

acquireCachesFirst(ver, os, c, archive) ==
    IF toolCacheFind(c, ver) # <<>>
    THEN [version |-> ver, did |-> "hit", cache |-> c,
          result |-> locate(ToolPath(ver), c[ver], os)]
    ELSE IF ~archive.ok
    THEN [version |-> ver, did |-> "failed",
          cache |-> cacheDir(c, archive.tree, ver),
          result |-> Raised(DownloadFailedError(os, ver))]
    ELSE [version |-> ver, did |-> "ok",
          cache |-> cacheDir(c, archive.tree, ver),
          result |-> locate(ToolPath(ver), archive.tree, os)]

\* Lines 88-108, for the version that line 87 leaves
acquire(ver, os, c, archive) ==
    IF toolCacheFind(c, ver) # <<>>
    THEN [version |-> ver, did |-> "hit", cache |-> c,
          result |-> locate(ToolPath(ver), c[ver], os)]
    ELSE IF ~archive.ok
    THEN [version |-> ver, did |-> "failed", cache |-> c,
          result |-> Raised(DownloadFailedError(os, ver))]
    ELSE [version |-> ver, did |-> "ok",
          cache |-> cacheDir(c, archive.tree, ver),
          result |-> locate(ToolPath(ver), archive.tree, os)]

\* Lines 86-109 as a function of the host cache and of what the network gives:
\* the call's outcome and the cache it leaves
downloadHelm(ver0, os, c, resp, archive) ==
    acquire(IF ver0 = <<>> THEN getStableHelmVersion(resp) ELSE ver0,
            os, c, archive)

----------------------------------------------------------------------------
(* The host: its tool cache and what has been observed of it *)

\* The effect of one downloadHelm call on the host, and its outcome
HostAfter(d, nc, f, a) ==
    [cache |-> d.cache,
     netCalls |-> IF d.did = "hit" THEN nc ELSE Incr(nc, d.version),
     fetched |-> IF d.did = "ok" THEN Incr(f, d.version) ELSE f,
     acquired |-> IF d.result.raised THEN a
                  ELSE Remember(a, d.version, d.result.value)]

FreshHost == [cache |-> EmptyMap, netCalls |-> EmptyMap, fetched |-> EmptyMap,
              acquired |-> EmptyMap]

NoResponse == [kind |-> "fetchError", items |-> <<>>]
NoQuery == [kind |-> "error", nodes |-> <<>>]
NoArchive == [ok |-> FALSE, tree |-> <<>>]

\* Listings run() meets in the model; the discovery functions are checked
\* over all of Responses and QueryResults in SpecStable and SpecFamily
RunResponses ==
    {NoResponse,
     [kind |-> "parseError", items |-> <<>>],
     [kind |-> "array", items |-> <<>>],
     [kind |-> "array",
      items |-> <<TagEntry(T_360rc1), TagEntry(T_353), NullEntry>>]}

RunQueries(tokenState) ==
    {NoQuery}
    \cup (IF tokenState = "valid"
          THEN {[kind |-> "nodes", nodes |-> n] :
                   n \in {<<>>, <<T_353, T_360rc1, T_350>>, <<T_2160, T_V310>>}}
          ELSE {})

----------------------------------------------------------------------------
(* downloadHelm called again and again on one host *)

CacheVersions == {<<>>, T_353, T_350}

InitCache ==
    /\ pc = "idle"
    /\ inVersion = Undefined
    /\ inToken = "valid"
    /\ legacy = FALSE
    /\ osType \in OsTypes
    /\ version = Undefined
    /\ discovery = <<>>
    /\ cache = EmptyMap
    /\ cachedPath = Undefined
    /\ envPATH = Undefined
    /\ output = Undefined
    /\ thrown = Undefined
    /\ failure = Undefined
    /\ download = "notCalled"
    /\ startPATH = Undefined
    /\ runs = 0
    /\ netCalls = EmptyMap
    /\ fetched = EmptyMap
    /\ acquired = EmptyMap
    /\ arg = Undefined
    /\ ret = NotCalled

CallDownloadHelm ==
    /\ runs < MaxCalls
    /\ runs' = runs + 1
    /\ \E ver \in CacheVersions :
       \E resp \in (IF ver = <<>> THEN RunResponses ELSE {NoResponse}),
          archive \in Archives :
       \E d \in {downloadHelm(ver, osType, cache, resp, archive)} :
       \E h \in {HostAfter(d, netCalls, fetched, acquired)} :
             \* a call that finds its version downloads no archive
             /\ (d.did = "hit" => archive = NoArchive)
             /\ version' = d.version
             /\ download' = d.did
             /\ cache' = h.cache
             /\ netCalls' = h.netCalls
             /\ fetched' = h.fetched
             /\ acquired' = h.acquired
             /\ ret' = d.result
    /\ UNCHANGED <<pc, inVersion, inToken, legacy, osType, discovery,
                   cachedPath, envPATH, output, thrown, failure, startPATH,
                   arg>>

SpecCache == InitCache /\ [][CallDownloadHelm]_vars

----------------------------------------------------------------------------
(* run(), lines 166-202: one invocation on a host *)

VersionInputs == {<<>>, I_latest, I_Latest, I_3x, I_2x, I_2170, I_v340,
                  I_V340, I_v3x}

PathDelimiter(os) == IF os = "Windows_NT" THEN ";" ELSE ":"

\* The host when the invocation starts: fresh, or as one earlier
\* acquisition left it
StartHosts(os) ==
    {FreshHost}
    \cup {HostAfter(downloadHelm(v, os, EmptyMap, NoResponse, a),
                    EmptyMap, EmptyMap, EmptyMap) :
             v \in {stableHelm3Version},
             a \in Archives \ {NoArchive}}

\* PATH of the new process: unset, without helm, or with a cached helm
\* directory put in front by an earlier step
StartPaths(os, host) ==
    {Undefined, S_usrBin}
    \cup {PathDirname(host.acquired[v]) \o <<PathDelimiter(os)>> \o S_usrBin :
             v \in DOMAIN host.acquired}

Init ==
    /\ pc = "idle"
    /\ inVersion = Undefined
    /\ inToken = "valid"
    /\ legacy = FALSE
    /\ osType \in OsTypes
    /\ \E h \in StartHosts(osType) :
          /\ cache = h.cache
          /\ netCalls = h.netCalls
          /\ fetched = h.fetched
          /\ acquired = h.acquired
    /\ version = Undefined
    /\ discovery = <<>>
    /\ cachedPath = Undefined
    /\ envPATH = Undefined
    /\ output = Undefined
    /\ thrown = Undefined
    /\ failure = Undefined
    /\ download = "notCalled"
    /\ startPATH = Undefined
    /\ runs = 0
    /\ arg = Undefined
    /\ ret = NotCalled

\* A workflow step starts the action: a new process with its inputs and
\* environment
Start ==
    /\ pc = "idle"
    /\ runs' = runs + 1
    /\ inVersion' \in VersionInputs
    /\ inToken' \in {"valid", "invalid", "missing"}
    /\ legacy' \in BOOLEAN
    /\ envPATH' \in StartPaths(osType, [acquired |-> acquired])
    /\ startPATH' = envPATH'
    /\ version' = inVersion'
    /\ pc' = "resolve"
    /\ UNCHANGED <<osType, discovery, cache, cachedPath, output, thrown,
                   failure, download, netCalls, fetched, acquired, arg, ret>>

\* Lines 167-183
Resolve ==
    /\ pc = "resolve"
    /\ \E resp \in (IF legacy /\ inVersion # <<>> /\ isLatest(inVersion)
                    THEN RunResponses ELSE {NoResponse}),
          query \in (IF ~legacy /\ inVersion # <<>>
                        /\ (wantsHelm3(inVersion) \/ wantsHelm2(inVersion))
                     THEN RunQueries(inToken) ELSE {NoQuery}) :
       \E r \in {resolve(inVersion, legacy, inToken, resp, query)} :
             /\ discovery' = r.discovery
             /\ IF r.raised
                THEN /\ thrown' = r.value
                     /\ pc' = "rejected"
                     /\ UNCHANGED version
                ELSE /\ version' = r.value
                     /\ pc' = "download"
                     /\ UNCHANGED thrown
    /\ UNCHANGED <<inVersion, inToken, legacy, osType, cache, cachedPath,
                   envPATH, output, failure, download, startPATH, runs,
                   netCalls, fetched, acquired, arg, ret>>

\* Lines 185-186: await downloadHelm(version)
DownloadHelm ==
    /\ pc = "download"
    /\ \E resp \in (IF version = <<>> THEN RunResponses ELSE {NoResponse}),
          archive \in Archives :
       \E d \in {downloadHelm(version, osType, cache, resp, archive)} :
       \E h \in {HostAfter(d, netCalls, fetched, acquired)} :
             \* a call that finds its version downloads no archive
             /\ (d.did = "hit" => archive = NoArchive)
             /\ download' = d.did
             /\ cache' = h.cache
             /\ netCalls' = h.netCalls
             /\ fetched' = h.fetched
             /\ acquired' = h.acquired
             /\ IF d.result.raised
                THEN /\ thrown' = d.result.value
                     /\ pc' = "rejected"
                     /\ UNCHANGED cachedPath
                ELSE /\ cachedPath' = d.result.value
                     /\ pc' = "addPath"
                     /\ UNCHANGED thrown
    /\ UNCHANGED <<inVersion, inToken, legacy, osType, version, discovery,
                   envPATH, output, failure, startPATH, runs, arg, ret>>

addPathAlways(pathValue, dir) == TRUE

\* Line 190: !process.env['PATH'].startsWith(path.dirname(cachedPath))
addPathNeeded(pathValue, dir) == ~startsWith(pathValue, dir)

\* core.addPath: the directory in front of PATH
addPath(pathValue, dir, os) == dir \o <<PathDelimiter(os)>> \o pathValue

\* Lines 188-196. Reading an unset PATH throws and core.addPath may throw;
\* the catch swallows both.
AddPath ==
    /\ pc = "addPath"
    /\ \/ /\ envPATH = Undefined
          /\ UNCHANGED envPATH
       \/ /\ envPATH # Undefined
          /\ ~addPathNeeded(envPATH, PathDirname(cachedPath))
          /\ UNCHANGED envPATH
       \/ /\ envPATH # Undefined
          /\ addPathNeeded(envPATH, PathDirname(cachedPath))
          /\ \/ envPATH' = addPath(envPATH, PathDirname(cachedPath), osType)
             \/ UNCHANGED envPATH
    /\ pc' = "publish"
    /\ UNCHANGED <<inVersion, inToken, legacy, osType, version, discovery,
                   cache, cachedPath, output, thrown, failure, download,
                   startPATH, runs, netCalls, fetched, acquired, arg, ret>>

\* Lines 198-199: core.setOutput('helm-path', cachedPath)
Publish ==
    /\ pc = "publish"
    /\ output' = cachedPath
    /\ pc' = "done"
    /\ UNCHANGED <<inVersion, inToken, legacy, osType, version, discovery,
                   cache, cachedPath, envPATH, thrown, failure, download,
                   startPATH, runs, netCalls, fetched, acquired, arg, ret>>

\* Line 202: run().catch(core.setFailed)
SetFailed ==
    /\ pc = "rejected"
    /\ failure' = thrown
    /\ pc' = "done"
    /\ UNCHANGED <<inVersion, inToken, legacy, osType, version, discovery,
                   cache, cachedPath, envPATH, output, thrown, download,
                   startPATH, runs, netCalls, fetched, acquired, arg, ret>>

Next == Start \/ Resolve \/ DownloadHelm \/ AddPath \/ Publish \/ SetFailed

Spec == Init /\ [][Next]_vars

\* run() is sequential code: once started, each of its steps is taken
FairSpec ==
    /\ Spec
    /\ WF_vars(Resolve)
    /\ WF_vars(DownloadHelm)
    /\ WF_vars(AddPath)
    /\ WF_vars(Publish)
    /\ WF_vars(SetFailed)
----------------------------------------------------------------------------
(* Properties of version resolution *)

\* Lines 167-183 have run in this invocation
ResolutionDone == pc \notin {"idle", "resolve"}

\* Resolution gave run() a version (it did not reject)
HasResolved == ResolutionDone /\ (thrown = Undefined \/ download # "notCalled")

HasStar(t) == \E i \in DOMAIN t : t[i] = "*"

DiscoveryCalls == {discovery[i].call : i \in DOMAIN discovery}

\* C1 as stated: the version passed to downloadHelm is prefixed with "v",
\* holds no "*", is not "latest" and is not empty.
C1_Original ==
    pc = "download" =>
        /\ version # <<>>
        /\ version[1] = "v"
        /\ ~HasStar(version)
        /\ version # S_latest

\* C1 as amended: the version passed to downloadHelm is never empty, never
\* "latest", and starts with "v" or "V"; it holds "*" only when the token
\* held "*" and no discovery was made.
C1_ResolvedVersionShape ==
    pc = "download" =>
        /\ version # <<>>
        /\ version[1] \in {"v", "V"}
        /\ version # S_latest
        /\ HasStar(version) => (HasStar(inVersion) /\ discovery = <<>>)

\* C1 witness: legacy mode has turned the token 3.* into v3.* and run() is
\* about to pass it to downloadHelm.
C1_Witness ==
    /\ pc = "download"
    /\ legacy
    /\ inVersion = I_3x
    /\ version = I_v3x

DefaultFor(call) ==
    IF call = "global" THEN <<"v","3",".","2",".","1">>
    ELSE IF call = "v2" THEN <<"v","2",".","1","7",".","0">>
    ELSE <<"v","3",".","5",".","3">>

\* C2: resolution never rejects run() for a supplied version token, and
\* after a failed discovery (fetch, parse, query, missing or invalid access
\* token) the resolved version is the default of that discovery.
C2_ResolutionNeverRaises ==
    (ResolutionDone /\ inVersion # <<>>) =>
        /\ HasResolved
        /\ \A i \in DOMAIN discovery :
               discovery[i].outcome \in {"fetchError", "parseError", "notArray",
                                         "error", "noToken"}
                   => version = DefaultFor(discovery[i].call)

\* C3 as stated: without legacy mode, exactly the tokens "latest" and "3.*"
\* call v3 discovery, exactly "2.*" calls v2 discovery, no other token calls
\* discovery, 2.17.0 gives v2.17.0, and the resolved version starts with "v".
C3_Original ==
    (ResolutionDone /\ ~legacy) =>
        /\ inVersion \in {S_latest, <<"3",".","*">>} => DiscoveryCalls = {"v3"}
        /\ inVersion = <<"2",".","*">> => DiscoveryCalls = {"v2"}
        /\ inVersion \notin {S_latest, <<"3",".","*">>, <<"2",".","*">>}
               => DiscoveryCalls = {}
        /\ (inVersion = I_2170) => version = <<"v">> \o I_2170
        /\ HasResolved => version[1] = "v"

\* C3 as amended: without legacy mode, the tokens that read "latest" in any
\* letter case and the token "3.*" call v3 discovery, "2.*" calls v2
\* discovery, no other token calls discovery, 2.17.0 gives v2.17.0, and a
\* resolved version starts with "v" or "V".
C3_NonLegacyDiscovery ==
    (ResolutionDone /\ ~legacy) =>
        LET reads == [i \in DOMAIN inVersion |->
                         IF inVersion[i] \in {"L","A","T","E","S"}
                         THEN LowerChar(inVersion[i]) ELSE inVersion[i]]
            three == reads = S_latest \/ inVersion = <<"3",".","*">>
            two == inVersion = <<"2",".","*">>
        IN /\ three => DiscoveryCalls = {"v3"}
           /\ two => DiscoveryCalls = {"v2"}
           /\ (~three /\ ~two) => DiscoveryCalls = {}
           /\ (inVersion = I_2170) => version = <<"v">> \o I_2170
           /\ HasResolved => version[1] \in {"v", "V"}

\* C3 witness: without legacy mode the token 2.* has called v2 discovery,
\* which listed releases, and a v2 tag was resolved.
C3_Witness ==
    /\ pc = "download"
    /\ ~legacy
    /\ inVersion = I_2x
    /\ discovery = <<[call |-> "v2", outcome |-> "nodes"]>>
    /\ version = T_2160

NoLeadingV(t) == t = <<>> \/ t[1] \notin {"v", "V"}

\* C4 as stated: in legacy mode a token that does not start with "v" or "V"
\* and is not "latest" resolves to "v" + token, and no family discovery is
\* made for any token.
C4_Original ==
    (ResolutionDone /\ legacy /\ inVersion # <<>>) =>
        /\ (NoLeadingV(inVersion) /\ inVersion # S_latest)
               => (HasResolved /\ version = <<"v">> \o inVersion)
        /\ DiscoveryCalls \cap {"v2", "v3"} = {}

\* C4 as amended: in legacy mode a token that does not start with "v" or "V"
\* and does not read "latest" in any letter case resolves to "v" + token,
\* and no family discovery is made for any token.
C4_LegacyPrefix ==
    (ResolutionDone /\ legacy /\ inVersion # <<>>) =>
        /\ (NoLeadingV(inVersion) /\ toLocaleLowerCase(inVersion) # S_latest)
               => (HasResolved /\ version = <<"v">> \o inVersion)
        /\ DiscoveryCalls \cap {"v2", "v3"} = {}

\* C4 witness: legacy mode has resolved the token 2.* to v2.* without any
\* discovery.
C4_Witness ==
    /\ pc = "download"
    /\ legacy
    /\ inVersion = I_2x
    /\ version = <<"v","2",".","*">>
    /\ discovery = <<>>

----------------------------------------------------------------------------
(* Properties of acquisition and publication *)

\* C7 (SpecCache): a version is downloaded, extracted and registered at most
\* once on a host; a call that finds its version in the cache makes no
\* download and leaves the cache as it is; and every call that returns a
\* path returns the path first returned for that version.
C7_CacheIdempotent ==
    /\ [](/\ \A v \in DOMAIN fetched : fetched[v] <= 1
          /\ (Called /\ ~ret.raised) => ret.value = acquired[version])
    /\ [][(runs' = runs + 1 /\ version' \in DOMAIN cache)
              => /\ download' = "hit"
                 /\ netCalls' = netCalls
                 /\ fetched' = fetched
                 /\ cache' = cache]_vars

\* C7 witness: a later call found its version in the cache: one download was
\* ever made for it and the call returned the path returned before.
C7_Witness ==
    /\ runs >= 2
    /\ download = "hit"
    /\ Called
    /\ ~ret.raised
    /\ Count(netCalls, version) = 1
    /\ Count(fetched, version) = 1
    /\ ret.value = acquired[version]

DownloadUrl ==
    S_urlPrefix \o version
    \o (IF osType = "Linux" THEN S_linuxSuffix
        ELSE IF osType = "Darwin" THEN S_darwinSuffix
        ELSE S_windowsSuffix)

CacheDirOf(v) == S_toolCacheRoot \o <<"/">> \o S_helm \o <<"/">> \o v

NoExecutable ==
    /\ download \in {"hit", "ok"}
    /\ {f \in FilesIn(CacheDirOf(version), <<>>, cache[version]) :
           f.name = TargetName(osType)} = {}

\* C8 (FairSpec): when the archive download fails or the cache directory
\* holds no executable, run() is rejected with the error naming the URL or
\* the directory, helm-path is not published, PATH keeps its value, a failed
\* download registers nothing in the cache, and the invocation ends with
\* that error given to setFailed.
C8_AcquisitionFailureFatal ==
    /\ []((download = "failed" \/ NoExecutable) =>
            /\ pc \in {"rejected", "done"}
            /\ thrown = (IF download = "failed"
                         THEN S_downloadFailed \o <<" ">> \o DownloadUrl
                         ELSE S_notFound \o <<" ">> \o CacheDirOf(version))
            /\ output = Undefined
            /\ cachedPath = Undefined
            /\ envPATH = startPATH
            /\ download = "failed" => version \notin DOMAIN cache
            /\ pc = "done" => failure = thrown)
    /\ (download = "failed" \/ NoExecutable)
           ~> (pc = "done" /\ failure = thrown /\ output = Undefined)

\* C8 witness: a download failed and the invocation has ended in setFailed.
C8_Witness ==
    /\ pc = "done"
    /\ download = "failed"
    /\ failure = S_downloadFailed \o <<" ">> \o DownloadUrl
    /\ output = Undefined

IsPrefixOf(p, t) == /\ Len(p) <= Len(t)
                    /\ \A i \in 1..Len(p) : t[i] = p[i]

ExecutableDir == SubSeq(cachedPath, 1, LastIndexOf(cachedPath, "/") - 1)

\* C10 (FairSpec): once downloadHelm has returned a path, the invocation
\* goes on to publish that path as helm-path, also when PATH is unset or
\* core.addPath fails; PATH changes only by getting the executable's
\* directory in front, and only when it did not already start with it.
C10_PublishesAndPath ==
    /\ (pc = "addPath") ~> (pc = "done" /\ output = cachedPath
                            /\ output # Undefined /\ failure = Undefined)
    /\ [][pc # "idle" =>
            \/ envPATH' = envPATH
            \/ /\ pc = "addPath"
               /\ envPATH # Undefined
               /\ ~IsPrefixOf(ExecutableDir, envPATH)
               /\ envPATH' = ExecutableDir \o <<PathDelimiter(osType)>>
                             \o envPATH]_vars

\* C10 witness: PATH was unset, so inspecting it failed, and the path was
\* published all the same.
C10_Witness ==
    /\ pc = "done"
    /\ envPATH = Undefined
    /\ output = cachedPath
    /\ output # Undefined
====
